---- MODULE Spec2Model ----
(***************************************************************************)
(* Model of the metric visualisation component (MetricVisComponent:        *)
(* getLabels, getColors, getBucket, getColor, needsLightText,              *)
(* getFormattedValue, processTableGroups) and of the latency selection     *)
(* formatter (getFormattedSelection).                                      *)
(*                                                                         *)
(* JavaScript numbers are modelled as records: NaN, +-Infinity, or an      *)
(* exact rational n/d in lowest terms with d > 0.  JavaScript strings are  *)
(* modelled as sequences of one-character strings, so that the regular     *)
(* expression of needsLightText and the template strings can be computed.  *)
(***************************************************************************)
EXTENDS Integers, Sequences, FiniteSets, TLC

(***************************************************************************)
(* Bounds of the model.                                                    *)
(***************************************************************************)
\* ordered colorsRange sequences hold 0..MaxRanges ranges
MaxRanges == 3
\* range bounds are drawn from -NegEnd..MaxEnd and BigEnd
NegEnd == 1
MaxEnd == 3
BigEnd == 500
\* a table holds 0..MaxRows rows
MaxRows == 2
\* a run of TransactionDistribution logs at most MaxCalls calls to its parent
\* and to the tracker
MaxCalls == 4

(***************************************************************************)
(* JavaScript numbers.                                                     *)
(***************************************************************************)
Abs(x) == IF x < 0 THEN -x ELSE x

Sign(x) == IF x < 0 THEN -1 ELSE IF x > 0 THEN 1 ELSE 0

RECURSIVE Gcd(_, _)
Gcd(a, b) == IF b = 0 THEN a ELSE Gcd(b, a % b)

NaN == [k |-> "nan"]

Inf(s) == [k |-> "inf", s |-> s]

\* the rational n/d (d # 0) in lowest terms with a positive denominator
Rat(n, d) ==
  LET g == Gcd(Abs(n), Abs(d))
  IN  [k |-> "fin", n |-> (Sign(d) * n) \div g, d |-> Abs(d) \div g]

Fin(n) == [k |-> "fin", n |-> n, d |-> 1]

IsFin(x) == x.k = "fin"

\* lodash isNaN on a number
isNaN(x) == x.k = "nan"

\* x < y of JavaScript: false whenever an operand is NaN
NumLt(x, y) ==
  CASE x.k = "nan" \/ y.k = "nan" -> FALSE
    [] x.k = "inf" /\ y.k = "inf" -> x.s < y.s
    [] x.k = "inf" -> x.s < 0
    [] y.k = "inf" -> y.s > 0
    [] OTHER -> x.n * y.d < y.n * x.d

\* x <= y of JavaScript
NumLe(x, y) ==
  CASE x.k = "nan" \/ y.k = "nan" -> FALSE
    [] x.k = "inf" /\ y.k = "inf" -> x.s <= y.s
    [] x.k = "inf" -> x.s < 0
    [] y.k = "inf" -> y.s > 0
    [] OTHER -> x.n * y.d <= y.n * x.d

\* x - y of JavaScript
NumSub(x, y) ==
  CASE x.k = "nan" \/ y.k = "nan" -> NaN
    [] x.k = "inf" /\ y.k = "inf" -> IF x.s = y.s THEN NaN ELSE x
    [] x.k = "inf" -> x
    [] y.k = "inf" -> Inf(-y.s)
    [] OTHER -> Rat(x.n * y.d - y.n * x.d, x.d * y.d)

\* x * y of JavaScript
NumMul(x, y) ==
  CASE x.k = "nan" \/ y.k = "nan" -> NaN
    [] x.k = "inf" /\ y.k = "inf" -> Inf(x.s * y.s)
    [] x.k = "inf" -> IF y.n = 0 THEN NaN ELSE Inf(x.s * Sign(y.n))
    [] y.k = "inf" -> IF x.n = 0 THEN NaN ELSE Inf(y.s * Sign(x.n))
    [] OTHER -> Rat(x.n * y.n, x.d * y.d)

\* x / y of JavaScript; a zero divisor is +0 (the model has no -0)
NumDiv(x, y) ==
  CASE x.k = "nan" \/ y.k = "nan" -> NaN
    [] x.k = "inf" /\ y.k = "inf" -> NaN
    [] x.k = "inf" -> IF y.n < 0 THEN Inf(-x.s) ELSE x
    [] y.k = "inf" -> Fin(0)
    [] y.n = 0 -> IF x.n = 0 THEN NaN ELSE Inf(Sign(x.n))
    [] OTHER -> Rat(x.n * y.d, x.d * y.n)

\* Math.round: the nearest integer, halves rounded towards +Infinity
MathRound(x) ==
  IF IsFin(x) THEN Fin((2 * x.n + x.d) \div (2 * x.d)) ELSE x

\* Math.max of two integers
MathMax(a, b) == IF a >= b THEN a ELSE b

(***************************************************************************)
(* JavaScript strings, as sequences of characters.                         *)
(***************************************************************************)
Digit == <<"0", "1", "2", "3", "4", "5", "6", "7", "8", "9">>

RECURSIVE NatToStr(_)
NatToStr(n) ==
  IF n < 10 THEN <<Digit[n + 1]>> ELSE NatToStr(n \div 10) \o <<Digit[(n % 10) + 1]>>

IntToStr(n) == IF n < 0 THEN <<"-">> \o NatToStr(-n) ELSE NatToStr(n)

\* String(x) of a number.  A non-integer is written n/d, an injective
\* stand-in for its decimal expansion (only opaque formatters receive one).
NumToStr(x) ==
  CASE x.k = "nan" -> <<"N", "a", "N">>
    [] x.k = "inf" ->
         (IF x.s < 0 THEN <<"-">> ELSE <<>>) \o <<"I", "n", "f", "i", "n", "i", "t", "y">>
    [] OTHER ->
         IF x.d = 1 THEN IntToStr(x.n) ELSE IntToStr(x.n) \o <<"/">> \o NatToStr(x.d)

\* the number of (possibly overlapping) occurrences of sub in s
Occurrences(sub, s) ==
  Cardinality({i \in 1..(Len(s) - Len(sub) + 1) : SubSeq(s, i, i + Len(sub) - 1) = sub})

(***************************************************************************)
(* Results of a call: a value, or a TypeError raised by reading a property *)
(* of undefined.                                                           *)
(***************************************************************************)
Ok(v) == [raised |-> FALSE, val |-> v]

Raise == [raised |-> TRUE, val |-> "TypeError"]

\* a result together with the collaborator calls made on the way, in order
WithCalls(result, made) == [raised |-> result.raised, val |-> result.val, calls |-> made]

\* the result alone
Result(r) == [raised |-> r.raised, val |-> r.val]

NoCall == [raised |-> FALSE, val |-> "none"]

(***************************************************************************)
(* MetricVisComponent.  cfg is props.visParams.metric:                     *)
(*   [percentageMode, invertColors, colorsRange, style]                    *)
(* colorsRange is a sequence of [from, to] with integer bounds; TLA+       *)
(* sequences are 1-based, the indices the operators return are 0-based as  *)
(* in the source.                                                          *)
(***************************************************************************)
S_dash == <<" ", "-", " ">>

\* mutant: Math.floor in place of Math.round
labelBound_floor(cfg, bound, max) ==
  LET x == NumDiv(NumMul(Fin(100), Fin(bound)), Fin(max))
  IN  IF cfg.percentageMode
        THEN (IF IsFin(x) THEN Fin(x.n \div x.d) ELSE x)
        ELSE Fin(bound)

\* one bound of a label: rescaled and rounded in percentage mode, else raw
labelBound(cfg, bound, max) ==
  IF cfg.percentageMode
    THEN MathRound(NumDiv(NumMul(Fin(100), Fin(bound)), Fin(max)))
    ELSE Fin(bound)

\* the template string `${from} - ${to}`
labelText(from, to) == NumToStr(from) \o S_dash \o NumToStr(to)

getLabels(cfg) ==
  LET colorsRange == cfg.colorsRange
  IN  IF Len(colorsRange) = 0
        THEN Raise
        ELSE LET max == colorsRange[Len(colorsRange)].to
             IN  Ok([i \in 1..Len(colorsRange) |->
                      labelText(labelBound(cfg, colorsRange[i].from, max),
                                labelBound(cfg, colorsRange[i].to, max))])

\* the heatmap colour collaborator: an opaque injective function of the
\* ratio that yields an rgb(r,g,b) string
getHeatmapColors(val) ==
  IF IsFin(val)
    THEN <<"r", "g", "b", "(">> \o NatToStr(Abs(val.n)) \o <<",">> \o NatToStr(val.d)
           \o <<",">> \o (IF val.n < 0 THEN <<"1">> ELSE <<"0">>) \o <<")">>
    ELSE NumToStr(val)

\* mutant: the divisor is ranges.length - 1, without Math.max(.., 1)
heatmapVal_plainDivider(cfg, i) ==
  LET divider == Len(cfg.colorsRange) - 1
  IN  IF cfg.invertColors
        THEN NumSub(Fin(1), NumDiv(Fin(i), Fin(divider)))
        ELSE NumDiv(Fin(i), Fin(divider))

\* the ratio handed to getHeatmapColors for index i (0-based)
heatmapVal(cfg, i) ==
  LET divider == MathMax(Len(cfg.colorsRange) - 1, 1)
  IN  IF cfg.invertColors
        THEN NumSub(Fin(1), NumDiv(Fin(i), Fin(divider)))
        ELSE NumDiv(Fin(i), Fin(divider))

\* the last index (1-based) that wrote the key label
LastWriter(labels, label) ==
  CHOOSE i \in 1..Len(labels) :
    /\ labels[i] = label
    /\ \A j \in (i + 1)..Len(labels) : labels[j] # label

\* the colours object (a later index with the same label overwrites), and
\* the getHeatmapColors calls in order
getColors(cfg) ==
  LET labels == getLabels(cfg)
  IN  IF labels.raised
        THEN WithCalls(Raise, <<>>)
        ELSE WithCalls(
               Ok([label \in {labels.val[i] : i \in 1..Len(labels.val)} |->
                    getHeatmapColors(heatmapVal(cfg, LastWriter(labels.val, label) - 1))]),
               [i \in 1..Len(labels.val) |->
                 [fn |-> "getHeatmapColors", arg |-> heatmapVal(cfg, i - 1)]])

\* mutant: the upper bound taken as inclusive
InRange_inclusiveTo(range, val) == NumLe(Fin(range.from), val) /\ NumLe(val, Fin(range.to))

InRange(range, val) == NumLe(Fin(range.from), val) /\ NumLt(val, Fin(range.to))

\* lodash findIndex: the first matching index (0-based), or -1
findIndex(colorsRange, val) ==
  IF \E i \in 1..Len(colorsRange) : InRange(colorsRange[i], val)
    THEN (CHOOSE i \in 1..Len(colorsRange) :
            /\ InRange(colorsRange[i], val)
            /\ \A j \in 1..(i - 1) : ~InRange(colorsRange[j], val)) - 1
    ELSE -1

\* mutant: a value no range holds always goes to the last bucket
getBucket_noLowClamp(cfg, val) ==
  LET bucket == findIndex(cfg.colorsRange, val)
  IN  IF bucket = -1
        THEN IF Len(cfg.colorsRange) = 0 THEN Raise ELSE Ok(Len(cfg.colorsRange) - 1)
        ELSE Ok(bucket)

getBucket(cfg, val) ==
  LET bucket == findIndex(cfg.colorsRange, val)
  IN  IF bucket = -1
        THEN IF Len(cfg.colorsRange) = 0
               THEN Raise
               ELSE IF NumLt(val, Fin(cfg.colorsRange[1].from))
                      THEN Ok(0)
                      ELSE Ok(Len(cfg.colorsRange) - 1)
        ELSE Ok(bucket)

getColor(cfg, val, labels, colors) ==
  LET bucket == getBucket(cfg, val)
  IN  IF bucket.raised THEN Raise ELSE Ok(colors[labels[bucket.val + 1]])

(***************************************************************************)
(* needsLightText and its regular expression                               *)
(*   /rgb\(\s*(\d+)\s*,\s*(\d+)\s*,\s*(\d+)\s*\)/                          *)
(* The character classes that follow one another are disjoint, so the      *)
(* greedy scan below finds a match at a position exactly when the          *)
(* backtracking matcher does.                                              *)
(***************************************************************************)
WhiteSpace == {" ", "\t"}

Digits == {Digit[i] : i \in 1..10}

\* the end (exclusive) of the longest run of class characters from i
RunEnd(s, i, class) ==
  CHOOSE j \in i..(Len(s) + 1) :
    /\ \A k \in i..(j - 1) : s[k] \in class
    /\ j = Len(s) + 1 \/ s[j] \notin class

LitAt(s, i, lit) ==
  /\ i + Len(lit) - 1 <= Len(s)
  /\ SubSeq(s, i, i + Len(lit) - 1) = lit

\* mutant: \d* in place of \d+
Component_emptyDigits(s, p) ==
  LET a == RunEnd(s, p, WhiteSpace)
      b == RunEnd(s, a, Digits)
  IN  [ok |-> TRUE, text |-> SubSeq(s, a, b - 1), next |-> RunEnd(s, b, WhiteSpace)]

\* \s*(\d+)\s* from position p
Component(s, p) ==
  LET a == RunEnd(s, p, WhiteSpace)
      b == RunEnd(s, a, Digits)
  IN  [ok |-> b > a, text |-> SubSeq(s, a, b - 1), next |-> RunEnd(s, b, WhiteSpace)]

\* the match of the whole expression starting at position i
MatchAt(s, i) ==
  IF ~LitAt(s, i, <<"r", "g", "b", "(">>) THEN [ok |-> FALSE] ELSE
  LET c1 == Component(s, i + 4) IN
  IF ~(c1.ok /\ LitAt(s, c1.next, <<",">>)) THEN [ok |-> FALSE] ELSE
  LET c2 == Component(s, c1.next + 1) IN
  IF ~(c2.ok /\ LitAt(s, c2.next, <<",">>)) THEN [ok |-> FALSE] ELSE
  LET c3 == Component(s, c2.next + 1) IN
  IF ~(c3.ok /\ LitAt(s, c3.next, <<")">>)) THEN [ok |-> FALSE] ELSE
  [ok |-> TRUE, groups |-> <<c1.text, c2.text, c3.text>>]

\* RegExp.exec: the groups of the leftmost match, or null
rgbExec(s) ==
  IF \E i \in 1..Len(s) : MatchAt(s, i).ok
    THEN LET i == CHOOSE i \in 1..Len(s) :
                    MatchAt(s, i).ok /\ \A j \in 1..(i - 1) : ~MatchAt(s, j).ok
         IN  [null |-> FALSE, groups |-> MatchAt(s, i).groups]
    ELSE [null |-> TRUE]

DigitValue(c) == (CHOOSE i \in 1..10 : Digit[i] = c) - 1

\* parseInt(c, 10) of a string of digits
RECURSIVE parseInt(_)
parseInt(c) ==
  IF Len(c) = 0 THEN 0
  ELSE 10 * parseInt(SubSeq(c, 1, Len(c) - 1)) + DigitValue(c[Len(c)])

\* needsLightText(bgColor), dark being what isColorDark answers when asked
needsLightText(bgColor, dark) ==
  LET colors == rgbExec(bgColor)
  IN  IF colors.null
        THEN WithCalls(Ok(FALSE), <<>>)
        ELSE WithCalls(Ok(dark),
                       <<[fn |-> "isColorDark",
                          arg |-> <<parseInt(colors.groups[1]), parseInt(colors.groups[2]),
                                    parseInt(colors.groups[3])>>]>>)

\* the value undefined, which is no string
Undefined == <<"undefined">>

\* the field formatter collaborator: an opaque conversion of a value to text
convert(value, format) ==
  IF format = "html" THEN <<"<">> \o NumToStr(value) \o <<">">> ELSE NumToStr(value)

\* mutant: no isNaN check
getFormattedValue_noNaNCheck(value, format) ==
  WithCalls(Ok(convert(value, format)), <<[fn |-> "convert", arg |-> <<value, format>>]>>)

getFormattedValue(value, format) ==
  IF isNaN(value)
    THEN WithCalls(Ok(<<"-">>), <<>>)
    ELSE WithCalls(Ok(convert(value, format)), <<[fn |-> "convert", arg |-> <<value, format>>]>>)

RECURSIVE Flatten(_)
Flatten(ss) == IF Len(ss) = 0 THEN <<>> ELSE Head(ss) \o Flatten(Tail(ss))

\* row[column.id] for metric dimension m (1-based) and row r (1-based)
rowValue(p, table, m, r) == table.rows[r][table.columns[p.dimensions.metrics[m] + 1].id]

\* the value rescaled in percentage mode: (value - min) / (max - min)
scaledValue(config, value) ==
  IF config.percentageMode
    THEN NumDiv(NumSub(value, Fin(config.colorsRange[1].from)),
                NumSub(Fin(config.colorsRange[Len(config.colorsRange)].to),
                       Fin(config.colorsRange[1].from)))
    ELSE value

\* the formatted bucket value of row r when a bucket dimension is given
bucketValueOf(p, table, r) ==
  IF Len(p.dimensions.bucket) > 0
    THEN getFormattedValue(table.rows[r][table.columns[p.dimensions.bucket[1] + 1].id], "text")
    ELSE WithCalls(Ok(<<>>), <<>>)

\* shouldColor && config.style.bgColor && this.needsLightText(color)
lightTextOf(config, color, darkOf) ==
  IF Len(config.colorsRange) > 1 /\ config.style.bgColor
    THEN needsLightText(color, darkOf[color])
    ELSE WithCalls(Ok(FALSE), <<>>)

\* mutant: color and bgColor follow the style alone, without shouldColor
pushed_noShouldColor(p, column, rowIndex, color, value, bucketValue, light) ==
  [metric |->
     [label |-> IF Len(p.dimensions.bucket) > 0
                  THEN bucketValue.val \o S_dash \o column.name
                  ELSE column.name,
      value |-> value.val,
      color |-> IF p.metric.style.labelColor THEN color ELSE Undefined,
      bgColor |-> IF p.metric.style.bgColor THEN color ELSE Undefined,
      lightText |-> light.val,
      rowIndex |-> rowIndex],
   calls |-> value.calls \o bucketValue.calls \o light.calls]

\* the descriptor pushed, with the collaborator calls made for it
pushed(p, column, rowIndex, color, value, bucketValue, light) ==
  [metric |->
     [label |-> IF Len(p.dimensions.bucket) > 0
                  THEN bucketValue.val \o S_dash \o column.name
                  ELSE column.name,
      value |-> value.val,
      color |-> IF Len(p.metric.colorsRange) > 1 /\ p.metric.style.labelColor
                  THEN color ELSE Undefined,
      bgColor |-> IF Len(p.metric.colorsRange) > 1 /\ p.metric.style.bgColor
                    THEN color ELSE Undefined,
      lightText |-> light.val,
      rowIndex |-> rowIndex],
   calls |-> value.calls \o bucketValue.calls \o light.calls]

\* the body of the rows loop, once the row's colour is known
metricOfColor(p, table, m, r, color, darkOf) ==
  pushed(p, table.columns[p.dimensions.metrics[m] + 1], r - 1, color,
         getFormattedValue(scaledValue(p.metric, rowValue(p, table, m, r)), "html"),
         bucketValueOf(p, table, r),
         lightTextOf(p.metric, color, darkOf))

\* the body of the rows loop for metric dimension m (1-based), row r (1-based)
metricOf(p, table, m, r, labels, colors, darkOf) ==
  metricOfColor(p, table, m, r,
                getColor(p.metric, rowValue(p, table, m, r), labels, colors).val, darkOf)

\* the descriptors in order and the collaborator calls in order
collected(each, colorCalls) ==
  WithCalls(Ok([e \in 1..Len(each) |-> each[e].metric]),
            colorCalls \o Flatten([e \in 1..Len(each) |-> each[e].calls]))

\* the two loops: metric dimension by metric dimension, row by row
metricsOf(p, table, nRows, labels, colors, darkOf) ==
  collected([e \in 1..(Len(p.dimensions.metrics) * nRows) |->
              metricOf(p, table, ((e - 1) \div nRows) + 1, ((e - 1) % nRows) + 1,
                       labels.val, colors.val, darkOf)],
            colors.calls)

\* processTableGroups(table), darkOf being what isColorDark answers for
\* each colour
processTableGroups(p, table, darkOf) ==
  IF Len(p.metric.colorsRange) = 0
    THEN WithCalls(Raise, <<>>)
    ELSE metricsOf(p, table, Len(table.rows), getLabels(p.metric), getColors(p.metric), darkOf)

(***************************************************************************)
(* getFormattedSelection and the duration formatter it asks.               *)
(***************************************************************************)
\* the duration formatter collaborator, for a duration in microseconds: the
\* unit is chosen from the value, value is the number in that unit and
\* formatted is `${value} ${unit}`
getDurationFormatter(x) ==
  LET unit == CASE x > 600000000 -> <<"m", "i", "n">>
                [] x > 10000000 -> <<"s">>
                [] x > 1000 -> <<"m", "s">>
                [] OTHER -> <<"u", "s">>
      size == CASE x > 600000000 -> 60000000
                [] x > 10000000 -> 1000000
                [] x > 1000 -> 1000
                [] OTHER -> 1
      value == NatToStr((2 * x + size) \div (2 * size))
  IN  [value |-> value, unit |-> unit, formatted |-> value \o <<" ">> \o unit]

\* mutant: both ends always fully formatted
getFormattedSelection_bothFormatted(selection) ==
  getDurationFormatter(selection[1]).formatted \o S_dash
    \o getDurationFormatter(selection[2]).formatted

getFormattedSelection(selection) ==
  LET from == getDurationFormatter(selection[1])
      to == getDurationFormatter(selection[2])
  IN  (IF from.unit = to.unit THEN from.value ELSE from.formatted) \o S_dash \o to.formatted

(***************************************************************************)
(* State.                                                                  *)
(*   props : the component's props (visParams.metric, visParams.dimensions)*)
(*   op    : the method called last and its argument                       *)
(*   ret   : what that call returned, or that it raised                    *)
(*   calls : the calls it made to its collaborators, in order              *)
(***************************************************************************)
VARIABLES props, op, ret, calls

vars == <<props, op, ret, calls>>

(***************************************************************************)
(* Inputs.                                                                 *)
(***************************************************************************)
Ends == ((-NegEnd)..MaxEnd) \cup {BigEnd}

RangePairs == {[from |-> a, to |-> b] : a \in Ends, b \in Ends} \ {r \in [from : Ends, to : Ends] : r.from > r.to}

\* ordered and non-overlapping: each range ends where or before the next starts
IsOrdered(R) ==
  /\ \A i \in 1..Len(R) : R[i].from <= R[i].to
  /\ \A i \in 1..(Len(R) - 1) : R[i].to <= R[i + 1].from

\* every ordered sequence of at most n ranges, built range by range
RECURSIVE OrderedSeqs(_)
OrderedSeqs(n) ==
  IF n = 0 THEN {<<>>}
  ELSE LET shorter == OrderedSeqs(n - 1)
       IN  shorter \cup
           {Append(p[1], p[2]) :
              p \in {q \in {Q \in shorter : Len(Q) = n - 1} \X RangePairs :
                       n = 1 \/ q[1][n - 1].to <= q[2].from}}

\* the colorsRange values of the model: every ordered sequence of at most
\* MaxRanges ranges, and every pair of ranges in any order (the order is a
\* convention the component does not enforce)
ColorsRanges == OrderedSeqs(MaxRanges) \cup {<<r1, r2>> : r1 \in RangePairs, r2 \in RangePairs}

\* row values: the integers around the range bounds, and NaN
Vals == {Fin(n) : n \in ((-NegEnd - 1)..(MaxEnd + 1)) \cup {BigEnd}} \cup {NaN}

DefaultStyle == [labelColor |-> FALSE, bgColor |-> FALSE]

\* dimensions.bucket is optional: <<>> when absent, <<accessor>> when given
DefaultDimensions == [metrics |-> <<0>>, bucket |-> <<>>]

Metric(colorsRange, percentageMode, invertColors, style) ==
  [colorsRange |-> colorsRange, percentageMode |-> percentageMode,
   invertColors |-> invertColors, style |-> style]

\* no call is in progress: JavaScript runs one call at a time
Idle == op.name = "none"

InitCall ==
  /\ op = [name |-> "none", arg |-> "none"]
  /\ ret = NoCall
  /\ calls = <<>>

\* the call returns, or raises, having made its collaborator calls
Returns(r) == ret' = Result(r) /\ calls' = r.calls

\* the caller takes the result of the call
Return ==
  /\ ~Idle
  /\ op' = [name |-> "none", arg |-> "none"]
  /\ ret' = NoCall
  /\ calls' = <<>>
  /\ UNCHANGED props

(***************************************************************************)
(* The bucketizer: getBucket on any colorsRange.                           *)
(***************************************************************************)
InitBucket ==
  /\ \E R \in ColorsRanges :
       props = [metric |-> Metric(R, FALSE, FALSE, DefaultStyle),
                dimensions |-> DefaultDimensions]
  /\ InitCall

GetBucket(val) ==
  /\ Idle
  /\ op' = [name |-> "getBucket", arg |-> val]
  /\ ret' = getBucket(props.metric, val)
  /\ calls' = <<>>
  /\ UNCHANGED props

NextBucket ==
  \/ \E val \in Vals : GetBucket(val)
  \/ Return

SpecBucket == InitBucket /\ [][NextBucket]_vars

(***************************************************************************)
(* Labels and colours: getLabels, getColors and getColor on any            *)
(* colorsRange, with percentage mode and inverted colours on or off.       *)
(***************************************************************************)
InitColors ==
  /\ \E R \in ColorsRanges, percentageMode \in BOOLEAN, invertColors \in BOOLEAN :
       props = [metric |-> Metric(R, percentageMode, invertColors, DefaultStyle),
                dimensions |-> DefaultDimensions]
  /\ InitCall

GetLabels ==
  /\ Idle
  /\ op' = [name |-> "getLabels", arg |-> "none"]
  /\ ret' = getLabels(props.metric)
  /\ calls' = <<>>
  /\ UNCHANGED props

GetColors ==
  /\ Idle
  /\ op' = [name |-> "getColors", arg |-> "none"]
  /\ ret' = Result(getColors(props.metric))
  /\ calls' = getColors(props.metric).calls
  /\ UNCHANGED props

\* getColor(val, labels, colors) on given labels and colours
ColorOf(val, labels, colors) ==
  IF colors.raised \/ labels.raised
    THEN Raise
    ELSE getColor(props.metric, val, labels.val, colors.val)

\* getColor as processTableGroups calls it: on the colours and labels that
\* getColors() and getLabels() have produced; it calls no collaborator
GetColor(val) ==
  /\ Idle
  /\ op' = [name |-> "getColor", arg |-> val]
  /\ ret' = ColorOf(val, getLabels(props.metric), getColors(props.metric))
  /\ calls' = <<>>
  /\ UNCHANGED props

NextColors ==
  \/ GetLabels
  \/ GetColors
  \/ \E val \in Vals : GetColor(val)
  \/ Return

SpecColors == InitColors /\ [][NextColors]_vars

(***************************************************************************)
(* The text contrast decision: needsLightText on colour strings.           *)
(***************************************************************************)
\* the strings of the model: an optional prefix, a head, three components
\* with optional blanks and their separators, and a tail
ColorStrings ==
  {pre \o head \o blank \o c1 \o blank \o <<",">> \o c2 \o sep \o c3 \o tail :
     pre \in {<<>>, <<"x">>, <<"r", "g", "b", "(">>},
     head \in {<<"r", "g", "b", "(">>, <<"r", "g", "b", "a", "(">>, <<"r", "g", "(">>},
     blank \in {<<>>, <<" ">>},
     c1 \in {<<"0">>, <<"2", "5">>, <<>>, <<"f">>},
     c2 \in {<<"0">>, <<"2", "5">>, <<>>, <<"f">>},
     c3 \in {<<"0">>, <<"2", "5">>, <<>>, <<"f">>},
     sep \in {<<",">>, <<" ">>},
     tail \in {<<")">>, <<>>, <<" ", ")">>}}
  \cup {<<>>, <<"#", "f", "f", "f">>}

InitText ==
  /\ props = [metric |-> Metric(<<[from |-> 0, to |-> BigEnd]>>, FALSE, FALSE, DefaultStyle),
              dimensions |-> DefaultDimensions]
  /\ InitCall

NeedsLightText(bgColor) ==
  /\ Idle
  /\ op' = [name |-> "needsLightText", arg |-> bgColor]
  /\ \E dark \in BOOLEAN :
       /\ ret' = Result(needsLightText(bgColor, dark))
       /\ calls' = needsLightText(bgColor, dark).calls
  /\ UNCHANGED props

NextText ==
  \/ \E bgColor \in ColorStrings : NeedsLightText(bgColor)
  \/ Return

SpecText == InitText /\ [][NextText]_vars

(***************************************************************************)
(* Tables: processTableGroups and getFormattedValue, together with the     *)
(* labels, colours and buckets they rest on.                               *)
(***************************************************************************)
\* the colorsRange values of the tables: the ordered sequences with bounds
\* 0 and MaxEnd, among them the empty one and those with max = min
TableRanges ==
  {R \in OrderedSeqs(MaxRanges) :
     \A i \in 1..Len(R) : R[i].from \in {0, MaxEnd} /\ R[i].to \in {0, MaxEnd}}

\* two columns; the rows give them numbers or NaN
TableColumns == <<[id |-> 1, name |-> <<"A">>], [id |-> 2, name |-> <<"B">>]>>

TableRows == {<<Fin(0), Fin(1)>>, <<Fin(MaxEnd), NaN>>, <<NaN, Fin(1)>>}

Tables ==
  {[columns |-> TableColumns, rows |-> rows] :
     rows \in UNION {[1..k -> TableRows] : k \in 0..MaxRows}}

\* accessors are column positions of the table
Dimensions ==
  {[metrics |-> m, bucket |-> b] : m \in {<<0>>, <<0, 1>>}, b \in {<<>>, <<1>>}}

FormatVals == Vals \cup {Inf(1), Inf(-1), Rat(1, 2)}

InitTable ==
  /\ \E R \in TableRanges, percentageMode \in BOOLEAN,
        style \in [labelColor : BOOLEAN, bgColor : BOOLEAN], d \in Dimensions :
       props = [metric |-> Metric(R, percentageMode, FALSE, style), dimensions |-> d]
  /\ InitCall

\* the colours needsLightText is asked about for the table
AskedColors(p, table) ==
  IF Len(p.metric.colorsRange) > 1 /\ p.metric.style.bgColor
    THEN LET colors == getColors(p.metric)
             labels == getLabels(p.metric)
         IN  {getColor(p.metric, table.rows[r][table.columns[p.dimensions.metrics[m] + 1].id],
                       labels.val, colors.val).val :
                m \in 1..Len(p.dimensions.metrics), r \in 1..Len(table.rows)}
    ELSE {}

ProcessTableGroups(table) ==
  /\ Idle
  /\ op' = [name |-> "processTableGroups", arg |-> table]
  /\ \E darkOf \in [AskedColors(props, table) -> BOOLEAN] :
       Returns(processTableGroups(props, table, darkOf))
  /\ UNCHANGED props

GetFormattedValue(value, format) ==
  /\ Idle
  /\ op' = [name |-> "getFormattedValue", arg |-> <<value, format>>]
  /\ ret' = Result(getFormattedValue(value, format))
  /\ calls' = getFormattedValue(value, format).calls
  /\ UNCHANGED props

NextTable ==
  \/ \E table \in Tables : ProcessTableGroups(table)
  \/ \E value \in FormatVals, format \in {"text", "html"} : GetFormattedValue(value, format)
  \/ GetLabels
  \/ GetColors
  \/ \E val \in Vals : GetBucket(val)
  \/ Return

SpecTable == InitTable /\ [][NextTable]_vars

(***************************************************************************)
(* The selection formatter: getFormattedSelection on pairs of durations.   *)
(***************************************************************************)
\* durations in microseconds, on both sides of each unit's threshold
Durations ==
  {0, 1, 999, 1000, 1001, 12000, 23000, 10000000, 10000001, 12000000, 600000001, 720000000}

InitSelection ==
  /\ props = [metric |-> Metric(<<[from |-> 0, to |-> BigEnd]>>, FALSE, FALSE, DefaultStyle),
              dimensions |-> DefaultDimensions]
  /\ InitCall

GetFormattedSelection(selection) ==
  /\ Idle
  /\ op' = [name |-> "getFormattedSelection", arg |-> selection]
  /\ ret' = Ok(getFormattedSelection(selection))
  /\ calls' = <<[fn |-> "getDurationFormatter", arg |-> selection[1]],
                [fn |-> "getDurationFormatter", arg |-> selection[2]]>>
  /\ UNCHANGED props

NextSelection ==
  \/ \E x \in Durations, y \in Durations : GetFormattedSelection(<<x, y>>)
  \/ Return

SpecSelection == InitSelection /\ [][NextSelection]_vars

(***************************************************************************)
(* ProductSelector, as its unit test drives it: setMockValues sets the     *)
(* config the component reads, shallow(<ProductSelector access=.../>)      *)
(* renders it once with the config of that moment.                         *)
(***************************************************************************)
AccessKeys == {"hasAppSearchAccess", "hasWorkplaceSearchAccess"}

\* the access objects: each flag absent, false or true ({} has none)
AccessObjects == UNION {[K -> BOOLEAN] : K \in SUBSET AccessKeys}

\* config.host: undefined, '' or a host
Hosts ==
  {Undefined, <<>>, <<"l", "o", "c", "a", "l", "h", "o", "s", "t">>, <<"e", "s", ":", "3", "0", "0", "2">>}

\* a host is configured: config.host is a non-empty string
HostSet(host) == host # Undefined /\ Len(host) > 0

\* access[key] is truthy: an absent flag reads undefined
HasAccess(access, key) == key \in DOMAIN access /\ access[key]

Element(type, product) == [type |-> type, product |-> product]

\* mutant: the card depends on the access flag alone
shouldShowCard_accessOnly(host, access, key) == HasAccess(access, key)

\* a product's card is shown when no host is configured or access is granted
shouldShowCard(host, access, key) == ~HostSet(host) \/ HasAccess(access, key)

\* the elements the component renders, in order
ProductSelector(host, access) ==
  (IF shouldShowCard(host, access, "hasAppSearchAccess")
     THEN <<Element("ProductCard", "appSearch")>> ELSE <<>>)
  \o (IF shouldShowCard(host, access, "hasWorkplaceSearchAccess")
        THEN <<Element("ProductCard", "workplaceSearch")>> ELSE <<>>)
  \o (IF HostSet(host)
        THEN <<Element("TrialCallout", "none"), Element("LicenseCallout", "none")>>
        ELSE <<Element("SetupGuideCta", "none")>>)

InitSelector ==
  /\ props = [config |-> [host |-> <<>>]]
  /\ InitCall

\* setMockValues({ config: { host } })
SetMockValues(host) ==
  /\ props' = [config |-> [host |-> host]]
  /\ UNCHANGED <<op, ret, calls>>

\* shallow(<ProductSelector access={access} />): the wrapper keeps what was
\* rendered with the config of the moment
Shallow(access) ==
  /\ op' = [name |-> "shallow", arg |-> [host |-> props.config.host, access |-> access]]
  /\ ret' = Ok(ProductSelector(props.config.host, access))
  /\ calls' = <<>>
  /\ UNCHANGED props

NextSelector ==
  \/ \E host \in Hosts : SetMockValues(host)
  \/ \E access \in AccessObjects : Shallow(access)

SpecSelector == InitSelector /\ [][NextSelector]_vars

(***************************************************************************)
(* TransactionDistribution.  In this specification                         *)
(*   props : the selection prop (<<>> when undefined) and the showSelection*)
(*           state of the component                                        *)
(*   op    : the event handled last, and the hasData notifications the     *)
(*           chart has given so far                                        *)
(*   ret   : what the component renders at the top of the tab: the hint    *)
(*           and the badge (<<>> when absent, <<text>> when shown)         *)
(*   calls : the calls made to the parent's callbacks and to the tracker   *)
(* React renders the component again after a state or prop change, so      *)
(* every action ends with the render of the new state.                     *)
(***************************************************************************)
S_selection == <<"S", "e", "l", "e", "c", "t", "i", "o", "n", ":", " ">>

\* the selections the parent passes: undefined, or a pair of durations
Selections == {<<>>, <<12000, 23000>>, <<12000, 12000000>>}

\* mutant: the hint is shown whenever there is no selection
TransactionDistribution_hintWithoutData(showSelection, selection) ==
  [hint |-> selection = <<>>,
   badge |-> IF showSelection /\ selection # <<>>
               THEN <<S_selection \o getFormattedSelection(selection)>>
               ELSE <<>>]

\* the hint and the badge of the returned element
TransactionDistribution(showSelection, selection) ==
  [hint |-> showSelection /\ selection = <<>>,
   badge |-> IF showSelection /\ selection # <<>>
               THEN <<S_selection \o getFormattedSelection(selection)>>
               ELSE <<>>]

Rendered(showSelection, selection) == Ok(TransactionDistribution(showSelection, selection))

InitDistribution ==
  /\ \E selection \in Selections : props = [selection |-> selection, showSelection |-> FALSE]
  /\ op = [name |-> "none", arg |-> "none", notified |-> <<>>]
  /\ ret = Rendered(props.showSelection, props.selection)
  /\ calls = <<>>

\* the chart notifies whether it has data
onTransactionDistributionHasData(hasData) ==
  /\ Len(calls) + 1 <= MaxCalls
  /\ props' = [props EXCEPT !.showSelection = hasData]
  /\ op' = [name |-> "onHasData", arg |-> hasData, notified |-> Append(op.notified, hasData)]
  /\ calls' = Append(calls, [fn |-> "onHasData", arg |-> hasData])
  /\ ret' = Rendered(hasData, props.selection)

\* the user brushes the chart
onTrackedChartSelection(brushArea) ==
  /\ Len(calls) + 2 <= MaxCalls
  /\ op' = [name |-> "onChartSelection", arg |-> brushArea, notified |-> op.notified]
  /\ calls' = calls \o <<[fn |-> "onChartSelection", arg |-> brushArea],
                         [fn |-> "trackApmEvent", arg |-> "transaction_distribution_chart_selection"]>>
  /\ UNCHANGED <<props, ret>>

\* the user clicks the badge, which is there to click only when shown
onTrackedClearSelection ==
  /\ ret.val.badge # <<>>
  /\ Len(calls) + 2 <= MaxCalls
  /\ op' = [name |-> "onClearSelection", arg |-> "none", notified |-> op.notified]
  /\ calls' = calls \o <<[fn |-> "onClearSelection", arg |-> "none"],
                         [fn |-> "trackApmEvent", arg |-> "transaction_distribution_chart_clear_selection"]>>
  /\ UNCHANGED <<props, ret>>

\* the parent renders the component with another selection
SelectionChange(selection) ==
  /\ selection # props.selection
  /\ props' = [props EXCEPT !.selection = selection]
  /\ op' = [name |-> "selection", arg |-> selection, notified |-> op.notified]
  /\ ret' = Rendered(props.showSelection, selection)
  /\ UNCHANGED calls

NextDistribution ==
  \/ \E hasData \in BOOLEAN : onTransactionDistributionHasData(hasData)
  \/ \E brushArea \in Selections \ {<<>>} : onTrackedChartSelection(brushArea)
  \/ onTrackedClearSelection
  \/ \E selection \in Selections : SelectionChange(selection)

SpecDistribution == InitDistribution /\ [][NextDistribution]_vars

(***************************************************************************)
(* The resolver generator script: main and deleteIndices.  In this         *)
(* specification                                                           *)
(*   props : argv (the delete flag, whether a seed was supplied)           *)
(*   op    : where the script stands (name) and, in deleteIndices, the     *)
(*           position of the index in hand (arg)                           *)
(*   ret   : the exit code once the process has ended                      *)
(*   calls : the requests sent, the answers received, the console output   *)
(*           and the call of indexHostsAndAlerts, in order                 *)
(* Each await is two steps: the call, and its settlement.                  *)
(***************************************************************************)
\* [argv.eventIndex, argv.metadataIndex, argv.policyIndex, argv.alertIndex]
\* with the default names
IndexNames ==
  <<"logs-endpoint.events.process-default", "metrics-endpoint.metadata-default",
    "metrics-endpoint.policy-default", "logs-endpoint.alerts-default">>

\* how a request settles: a response, a ResponseError with its status code,
\* or an error that is no ResponseError
Settlements ==
  {[kind |-> "ok", statusCode |-> 200], [kind |-> "ResponseError", statusCode |-> 404],
   [kind |-> "ResponseError", statusCode |-> 400], [kind |-> "ResponseError", statusCode |-> 500],
   [kind |-> "ConnectionError", statusCode |-> 0]}

\* mutant: every ResponseError ends the process, 404 included
handleErr_exitOn404(err) == err.kind = "ResponseError"

\* handleErr: whether the error ends the process
handleErr(err) == err.kind = "ResponseError" /\ err.statusCode # 404

At(name, i) == [name |-> name, arg |-> i]

Logged(fn, arg) == [fn |-> fn, arg |-> arg]

InitScript ==
  /\ \E delete \in BOOLEAN, seed \in BOOLEAN : props = [delete |-> delete, seed |-> seed]
  /\ op = At("main", 0)
  /\ ret = NoCall
  /\ calls = <<>>

\* main up to the delete flag: the clients are made
MainStart ==
  /\ op.name = "main"
  /\ op' = IF props.delete THEN At("request", 1) ELSE At("index", 0)
  /\ UNCHANGED <<props, ret, calls>>

\* deleteIndices: the DELETE of the index in hand is sent
DeleteRequest ==
  /\ op.name = "request"
  /\ calls' = Append(calls, Logged("DELETE", <<"_data_stream/", IndexNames[op.arg]>>))
  /\ op' = At("await", op.arg)
  /\ UNCHANGED <<props, ret>>

\* what follows the delete of index i in the loop
AfterDelete(i) == IF i < Len(IndexNames) THEN At("request", i + 1) ELSE At("index", 0)

\* the request settles: a response, or an error given to handleErr
DeleteSettled(settlement) ==
  /\ op.name = "await"
  /\ IF settlement.kind # "ok" /\ handleErr(settlement)
       THEN /\ calls' = calls \o <<Logged("settled", settlement), Logged("console.log", "err")>>
            /\ op' = At("exited", op.arg)
            /\ ret' = Ok(1)
       ELSE /\ calls' = Append(calls, Logged("settled", settlement))
            /\ op' = AfterDelete(op.arg)
            /\ UNCHANGED ret
  /\ UNCHANGED props

\* main after the deletes: the seed, then indexHostsAndAlerts is called
IndexStart ==
  /\ op.name = "index"
  /\ calls' = calls
       \o (IF props.seed THEN <<>> ELSE <<Logged("console.log", "No seed supplied")>>)
       \o <<Logged("indexHostsAndAlerts", "client")>>
  /\ op' = At("indexing", 0)
  /\ UNCHANGED <<props, ret>>

\* indexHostsAndAlerts resolves and main ends
IndexResolved ==
  /\ op.name = "indexing"
  /\ calls' = Append(calls, Logged("console.log", "Creating and indexing documents took"))
  /\ op' = At("exited", 0)
  /\ ret' = Ok(0)
  /\ UNCHANGED props

\* indexHostsAndAlerts rejects: main() has no catch, and what an unhandled
\* rejection does to the exit code depends on the Node.js in use
IndexRejected ==
  /\ op.name = "indexing"
  /\ \E code \in {0, 1} : ret' = Ok(code)
  /\ op' = At("exited", 0)
  /\ UNCHANGED <<props, calls>>

NextScript ==
  \/ MainStart
  \/ DeleteRequest
  \/ \E settlement \in Settlements : DeleteSettled(settlement)
  \/ IndexStart
  \/ IndexResolved
  \/ IndexRejected

SpecScript == InitScript /\ [][NextScript]_vars

(***************************************************************************)
(* Properties.  They are stated on the integers of the ranges and of the   *)
(* value, not through the operators of the model.                          *)
(***************************************************************************)
\* from <= v < to, for a value that is a number
Holds(range, v) == v.k = "fin" /\ range.from * v.d <= v.n /\ v.n < range.to * v.d

Below(v, bound) == v.k = "fin" /\ v.n < bound * v.d

AtLeast(v, bound) == v.k = "fin" /\ v.n >= bound * v.d

CalledGetBucket == op.name = "getBucket"

\* every range of colorsRange has from < to
ProperRanges ==
  \A i \in 1..Len(props.metric.colorsRange) :
    props.metric.colorsRange[i].from < props.metric.colorsRange[i].to

\* the state is the return of getBucket(v) on an ordered, non-overlapping,
\* non-empty colorsRange with R[0].from <= v < R[last].to
InDomainCall ==
  /\ CalledGetBucket
  /\ Len(props.metric.colorsRange) > 0
  /\ IsOrdered(props.metric.colorsRange)
  /\ AtLeast(op.arg, props.metric.colorsRange[1].from)
  /\ Below(op.arg, props.metric.colorsRange[Len(props.metric.colorsRange)].to)

\* C1 as stated: for ordered non-overlapping ranges R and R[0].from <= v <
\* R[last].to, getBucket(v) is the unique index i with R[i].from <= v <
\* R[i].to, gaps between consecutive ranges included.
C1_Original ==
  (InDomainCall /\ ProperRanges) =>
    /\ ~ret.raised
    /\ \A i \in 1..Len(props.metric.colorsRange) :
         Holds(props.metric.colorsRange[i], op.arg) <=> i = ret.val + 1

\* C1 amended: for ordered non-overlapping ranges R and R[0].from <= v <
\* R[last].to, getBucket(v) is the unique index i with R[i].from <= v <
\* R[i].to when some range holds v; when v lies in a gap between two ranges
\* no range holds it and getBucket(v) is len(R)-1.
C1_BucketOfInDomainValue ==
  InDomainCall =>
    /\ ~ret.raised
    /\ IF \E i \in 1..Len(props.metric.colorsRange) :
            Holds(props.metric.colorsRange[i], op.arg)
         THEN \A i \in 1..Len(props.metric.colorsRange) :
                Holds(props.metric.colorsRange[i], op.arg) <=> i = ret.val + 1
         ELSE ret.val = Len(props.metric.colorsRange) - 1

\* C1 witness: an in-domain value found in a range that is neither the first
\* nor the last, of ranges that leave a gap
C1_Witness ==
  /\ InDomainCall
  /\ ~ret.raised
  /\ ret.val > 0
  /\ ret.val < Len(props.metric.colorsRange) - 1
  /\ Holds(props.metric.colorsRange[ret.val + 1], op.arg)
  /\ \E i \in 1..(Len(props.metric.colorsRange) - 1) :
       props.metric.colorsRange[i].to < props.metric.colorsRange[i + 1].from

\* C2 as stated: for every non-empty R, v < R[0].from gives 0, v >=
\* R[last].to gives len(R)-1, and the index is always in 0..len(R)-1.
C2_Original ==
  (CalledGetBucket /\ Len(props.metric.colorsRange) > 0 /\ ProperRanges) =>
    /\ ~ret.raised
    /\ ret.val \in 0..(Len(props.metric.colorsRange) - 1)
    /\ Below(op.arg, props.metric.colorsRange[1].from) => ret.val = 0
    /\ AtLeast(op.arg, props.metric.colorsRange[Len(props.metric.colorsRange)].to)
         => ret.val = Len(props.metric.colorsRange) - 1

\* C2 amended: for every non-empty R the index is in 0..len(R)-1 and the
\* lookup does not fail; for every non-empty ordered, non-overlapping R,
\* v < R[0].from gives 0 and v >= R[last].to gives len(R)-1.
C2_EdgeClamping ==
  (CalledGetBucket /\ Len(props.metric.colorsRange) > 0) =>
    /\ ~ret.raised
    /\ ret.val \in 0..(Len(props.metric.colorsRange) - 1)
    /\ IsOrdered(props.metric.colorsRange) =>
         /\ Below(op.arg, props.metric.colorsRange[1].from) => ret.val = 0
         /\ AtLeast(op.arg, props.metric.colorsRange[Len(props.metric.colorsRange)].to)
              => ret.val = Len(props.metric.colorsRange) - 1

\* C2 witness: a value below the first of several ordered ranges, clamped to 0
C2_Witness ==
  /\ CalledGetBucket
  /\ Len(props.metric.colorsRange) > 1
  /\ IsOrdered(props.metric.colorsRange)
  /\ props.metric.colorsRange[1].from < props.metric.colorsRange[1].to
  /\ Below(op.arg, props.metric.colorsRange[1].from)
  /\ ret = Ok(0)

\* the ratio i/max(n-1, 1), or 1 - i/max(n-1, 1) when inverted
RatioOf(i, n, invert) ==
  LET D == IF n > 1 THEN n - 1 ELSE 1
  IN  IF invert THEN Rat(D - i, D) ELSE Rat(i, D)

\* a non-empty, ordered colorsRange of proper ranges with bounds >= 0
PlainRanges ==
  /\ Len(props.metric.colorsRange) > 0
  /\ IsOrdered(props.metric.colorsRange)
  /\ ProperRanges
  /\ props.metric.colorsRange[1].from >= 0

\* C3 as stated: for every configuration the number of labels of getLabels,
\* the number of colours of getColors and the number of ranges are equal.
\* (Stated here on plain ranges only, where neither call raises.)
C3_Original ==
  PlainRanges =>
    /\ op.name = "getLabels" =>
         ~ret.raised /\ Len(ret.val) = Len(props.metric.colorsRange)
    /\ op.name = "getColors" =>
         ~ret.raised /\ Cardinality(DOMAIN ret.val) = Len(props.metric.colorsRange)

\* C4 as stated: the colour getColor returns for v is the heatmap colour of
\* the ratio i/(n-1), inverted or not, of its own bucket i = getBucket(v).
C4_Original ==
  (op.name = "getColor" /\ PlainRanges) =>
    /\ ~ret.raised
    /\ ret.val = getHeatmapColors(RatioOf(getBucket(props.metric, op.arg).val,
                                          Len(props.metric.colorsRange),
                                          props.metric.invertColors))

\* C5: the divisor of getColors is max(n-1, 1): every ratio handed to the
\* heatmap collaborator is a number in [0,1], also for a single range, and
\* the i-th call of getColors gets i/max(n-1,1), or 1 minus it when inverted.
C5_RatioInUnitInterval ==
  /\ \A k \in 1..Len(calls) :
       calls[k].fn = "getHeatmapColors" =>
         /\ calls[k].arg.k = "fin"
         /\ 0 <= calls[k].arg.n
         /\ calls[k].arg.n <= calls[k].arg.d
  /\ (op.name = "getColors" /\ Len(props.metric.colorsRange) > 0) =>
       /\ Len(calls) = Len(props.metric.colorsRange)
       /\ \A k \in 1..Len(calls) :
            calls[k] = [fn |-> "getHeatmapColors",
                        arg |-> RatioOf(k - 1, Len(props.metric.colorsRange),
                                        props.metric.invertColors)]

\* C5 witness: getColors on a single range with inverted colours asks for
\* the colour of ratio 1
C5_Witness ==
  /\ op.name = "getColors"
  /\ Len(props.metric.colorsRange) = 1
  /\ props.metric.invertColors
  /\ ~ret.raised
  /\ calls = <<[fn |-> "getHeatmapColors", arg |-> Fin(1)]>>

\* the text "{a} - {b}" of two integers
LabelOf(a, b) == IntToStr(a) \o <<" ", "-", " ">> \o IntToStr(b)

LastTo == props.metric.colorsRange[Len(props.metric.colorsRange)].to

\* the integers of 0..100 nearest to 100*bound/max
NearestPercents(bound, max) ==
  {a \in 0..100 : 2 * Abs(100 * bound - a * max) <= Abs(max)}

\* the labels are "{from} - {to}" with each bound the raw range bound
RawLabels ==
  \A i \in 1..Len(props.metric.colorsRange) :
    ret.val[i] = LabelOf(props.metric.colorsRange[i].from, props.metric.colorsRange[i].to)

\* the labels are "{from} - {to}" with each bound an integer of 0..100
\* nearest to the percentage of the last range's to, the last one being 100
PercentLabels ==
  /\ \A i \in 1..Len(props.metric.colorsRange) :
       \E a \in NearestPercents(props.metric.colorsRange[i].from, LastTo) :
         \E b \in NearestPercents(props.metric.colorsRange[i].to, LastTo) :
           ret.val[i] = LabelOf(a, b)
  /\ \E a \in 0..100 : ret.val[Len(props.metric.colorsRange)] = LabelOf(a, 100)

\* C10 as stated: in percentage mode every label bound is the range bound
\* rescaled to a percentage of the last to and rounded, an integer of
\* 0..100, the last upper bound being 100; otherwise the bounds are raw.
\* (Stated here on ordered proper ranges whose last to is positive.)
C10_Original ==
  (op.name = "getLabels" /\ Len(props.metric.colorsRange) > 0
     /\ IsOrdered(props.metric.colorsRange) /\ ProperRanges /\ LastTo > 0) =>
    /\ ~ret.raised
    /\ Len(ret.val) = Len(props.metric.colorsRange)
    /\ IF props.metric.percentageMode THEN PercentLabels ELSE RawLabels

\* every bound of colorsRange lies in 0..max, max the last range's to, max > 0
BoundsWithinMax ==
  /\ LastTo > 0
  /\ \A i \in 1..Len(props.metric.colorsRange) :
       /\ props.metric.colorsRange[i].from \in 0..LastTo
       /\ props.metric.colorsRange[i].to \in 0..LastTo

\* C10 amended: for a non-empty colorsRange, with percentage mode off every
\* label is "{from} - {to}" of the raw bounds; with percentage mode on, and
\* every bound within 0..max for max = the last to > 0, every label bound is
\* the bound rescaled to 100*bound/max and rounded to the nearest integer,
\* an integer of 0..100, and the last upper bound is 100.
C10_LabelBounds ==
  (op.name = "getLabels" /\ Len(props.metric.colorsRange) > 0) =>
    /\ ~ret.raised
    /\ Len(ret.val) = Len(props.metric.colorsRange)
    /\ ~props.metric.percentageMode => RawLabels
    /\ (props.metric.percentageMode /\ BoundsWithinMax) => PercentLabels

\* C10 witness: ranges 0..MaxEnd and MaxEnd..BigEnd in percentage mode, the
\* inner bound rounded up
C10_Witness ==
  /\ op.name = "getLabels"
  /\ props.metric.percentageMode
  /\ props.metric.colorsRange =
       <<[from |-> 0, to |-> MaxEnd], [from |-> MaxEnd, to |-> BigEnd]>>
  /\ ret = Ok(<<LabelOf(0, 1), LabelOf(1, 100)>>)

\* t is blanks, one or more digits, blanks
IsComponentText(t) ==
  \E a \in 0..Len(t) : \E b \in (a + 1)..Len(t) :
    /\ \A k \in 1..a : t[k] \in {" ", "\t"}
    /\ \A k \in (a + 1)..b : t[k] \in {"0", "1", "2", "3", "4", "5", "6", "7", "8", "9"}
    /\ \A k \in (b + 1)..Len(t) : t[k] \in {" ", "\t"}

\* s holds a text of the form rgb(r,g,b): "rgb(", three components
\* separated by commas, ")"
HasRgbPattern(s) ==
  \E i \in {i \in 1..(Len(s) - 3) : SubSeq(s, i, i + 3) = <<"r", "g", "b", "(">>} :
    \E j \in {j \in (i + 4)..Len(s) : s[j] = ")"} :
      \E k1 \in {k \in (i + 4)..(j - 1) : s[k] = ","} :
        \E k2 \in {k \in (k1 + 1)..(j - 1) : s[k] = ","} :
          /\ IsComponentText(SubSeq(s, i + 4, k1 - 1))
          /\ IsComponentText(SubSeq(s, k1 + 1, k2 - 1))
          /\ IsComponentText(SubSeq(s, k2 + 1, j - 1))

\* C7: needsLightText calls isColorDark only on a string that matches the
\* rgb(r,g,b) pattern; on a string that does not match, isColorDark is not
\* called and the result is false, without raising.
C7_DarknessOnlyOnRgb ==
  op.name = "needsLightText" =>
    /\ ~ret.raised
    /\ (\E k \in 1..Len(calls) : calls[k].fn = "isColorDark") => HasRgbPattern(op.arg)
    /\ ~HasRgbPattern(op.arg) => (calls = <<>> /\ ret.val = FALSE)

\* C7 witness: a string that starts as rgb( but has a component without
\* digits: no call, false
C7_Witness ==
  /\ op.name = "needsLightText"
  /\ Len(op.arg) > 6
  /\ SubSeq(op.arg, 1, 4) = <<"r", "g", "b", "(">>
  /\ op.arg[Len(op.arg)] = ")"
  /\ ~HasRgbPattern(op.arg)
  /\ calls = <<>>
  /\ ret = Ok(FALSE)

\* a string that matches, with the call made
C7_Matched ==
  /\ op.name = "needsLightText"
  /\ HasRgbPattern(op.arg)
  /\ Len(calls) = 1
  /\ calls[1] = [fn |-> "isColorDark", arg |-> <<25, 0, 25>>]
  /\ ret = Ok(TRUE)

\* the two ends of the selection as the duration formatter gives them
FromEnd == getDurationFormatter(op.arg[1])

ToEnd == getDurationFormatter(op.arg[2])

\* C6: getFormattedSelection([x, y]) is "{from.value} - {to.formatted}" when
\* the formatter gives both ends the same unit and "{from.formatted} -
\* {to.formatted}" otherwise; with the same unit, the unit occurs exactly
\* once in the output.
C6_SelectionText ==
  op.name = "getFormattedSelection" =>
    /\ ~ret.raised
    /\ FromEnd.unit = ToEnd.unit =>
         /\ ret.val = FromEnd.value \o <<" ", "-", " ">> \o ToEnd.formatted
         /\ Occurrences(ToEnd.unit, ret.val) = 1
    /\ FromEnd.unit # ToEnd.unit =>
         ret.val = FromEnd.formatted \o <<" ", "-", " ">> \o ToEnd.formatted

\* C6 witness: 12000 and 23000 microseconds, both in ms: "12 - 23 ms"
C6_Witness ==
  /\ op.name = "getFormattedSelection"
  /\ op.arg = <<12000, 23000>>
  /\ FromEnd.unit = ToEnd.unit
  /\ ret = Ok(<<"1", "2", " ", "-", " ", "2", "3", " ", "m", "s">>)

\* the raw value of descriptor e of the table processed: the loops go metric
\* dimension by metric dimension, row by row
RawOf(e) ==
  op.arg.rows[((e - 1) % Len(op.arg.rows)) + 1]
             [props.dimensions.metrics[((e - 1) \div Len(op.arg.rows)) + 1] + 1]

\* the value handed to getFormattedValue for a raw value is NaN: the raw
\* value is NaN, or percentage mode computes 0/0 because max = min = value
ScalesToNaN(raw) ==
  \/ raw.k = "nan"
  \/ /\ props.metric.percentageMode
     /\ LastTo = props.metric.colorsRange[1].from
     /\ raw.k = "fin"
     /\ raw.n = LastTo * raw.d

\* C8: getFormattedValue of NaN is "-" and convert is not called; convert is
\* called only with values that are not NaN, the percentage-mode value of
\* processTableGroups included.
C8_NaNPlaceholder ==
  /\ \A k \in 1..Len(calls) : calls[k].fn = "convert" => calls[k].arg[1].k # "nan"
  /\ op.name = "getFormattedValue" =>
       IF op.arg[1].k = "nan"
         THEN ret = Ok(<<"-">>) /\ calls = <<>>
         ELSE calls = <<[fn |-> "convert", arg |-> op.arg]>>
  /\ (op.name = "processTableGroups" /\ ~ret.raised) =>
       \A e \in 1..Len(ret.val) : ScalesToNaN(RawOf(e)) <=> ret.val[e].value = <<"-">>

\* C8 witness: percentage mode with max = min and a row whose value is min:
\* (v - min)/(max - min) is NaN and the descriptor's value is "-"
C8_Witness ==
  /\ op.name = "processTableGroups"
  /\ ~ret.raised
  /\ props.metric.percentageMode
  /\ LastTo = props.metric.colorsRange[1].from
  /\ \E e \in 1..Len(ret.val) :
       /\ RawOf(e).k = "fin"
       /\ ret.val[e].value = <<"-">>
  /\ \E k \in 1..Len(calls) : calls[k].fn = "convert"

\* C9 as stated: for every configuration and table, an empty colorsRange
\* included, getLabels, getColors, getBucket and processTableGroups complete
\* without raising.
C9_Original ==
  op.name \in {"getLabels", "getColors", "getBucket", "processTableGroups"} => ~ret.raised

\* the products of the ProductCard elements of the wrapper, in order
CardsFound ==
  [i \in 1..Len(SelectSeq(ret.val, LAMBDA e : e.type = "ProductCard")) |->
     SelectSeq(ret.val, LAMBDA e : e.type = "ProductCard")[i].product]

\* the access object of the render grants the flag
Granted(key) == key \in DOMAIN op.arg.access /\ op.arg.access[key] = TRUE

RenderedWithHost == op.arg.host # Undefined /\ op.arg.host # <<>>

\* C11: with a host configured, ProductSelector renders a product's card
\* exactly when the access object grants that product (only Workplace
\* Search without App Search access, only App Search without Workplace
\* Search access, no card with neither); with no host configured both cards
\* are rendered whatever the access object.
C11_CardsFollowAccess ==
  op.name = "shallow" =>
    /\ ~ret.raised
    /\ RenderedWithHost =>
         CardsFound =
           (IF Granted("hasAppSearchAccess") THEN <<"appSearch">> ELSE <<>>)
           \o (IF Granted("hasWorkplaceSearchAccess") THEN <<"workplaceSearch">> ELSE <<>>)
    /\ ~RenderedWithHost => CardsFound = <<"appSearch", "workplaceSearch">>

\* C11 witness: host 'localhost', access to Workplace Search only: one card,
\* the Workplace Search one
C11_Witness ==
  /\ op.name = "shallow"
  /\ op.arg.host = <<"l", "o", "c", "a", "l", "h", "o", "s", "t">>
  /\ op.arg.access = [hasAppSearchAccess |-> FALSE, hasWorkplaceSearchAccess |-> TRUE]
  /\ CardsFound = <<"workplaceSearch">>

\* the number of ranges of the configuration
RangeCount == Len(props.metric.colorsRange)

\* descriptor d is coloured as the style and the number of ranges say
ColouredByStyle(d) ==
  IF RangeCount <= 1
    THEN d.color = Undefined /\ d.bgColor = Undefined /\ d.lightText = FALSE
    ELSE /\ d.color # Undefined <=> props.metric.style.labelColor
         /\ d.bgColor # Undefined <=> props.metric.style.bgColor
         /\ d.lightText = TRUE => d.bgColor # Undefined

\* C12: every descriptor processTableGroups produces has color and bgColor
\* undefined and lightText false when colorsRange has at most one range;
\* with more ranges color is set iff style.labelColor, bgColor iff
\* style.bgColor, and lightText is true only with bgColor set.  There are
\* (metric dimensions) x (rows) descriptors, each with its row's position
\* as rowIndex.
C12_DescriptorColouring ==
  (op.name = "processTableGroups" /\ ~ret.raised) =>
    /\ Len(ret.val) = Len(props.dimensions.metrics) * Len(op.arg.rows)
    /\ \A e \in 1..Len(ret.val) :
         /\ ret.val[e].rowIndex = (e - 1) % Len(op.arg.rows)
         /\ ColouredByStyle(ret.val[e])

\* C12 witness: several ranges, bgColor on and labelColor off, two metric
\* dimensions and two rows: four descriptors, one of them with light text
C12_Witness ==
  /\ op.name = "processTableGroups"
  /\ ~ret.raised
  /\ RangeCount > 1
  /\ props.metric.style.bgColor
  /\ ~props.metric.style.labelColor
  /\ Len(props.dimensions.metrics) = 2
  /\ Len(op.arg.rows) = 2
  /\ Len(ret.val) = 4
  /\ ret.val[4].rowIndex = 1
  /\ \E e \in 1..4 : ret.val[e].lightText = TRUE /\ ret.val[e].color = Undefined

\* the descriptors of a single range carry no colour whatever the style
C12_SingleRange ==
  /\ op.name = "processTableGroups"
  /\ ~ret.raised
  /\ RangeCount = 1
  /\ props.metric.style.bgColor
  /\ props.metric.style.labelColor
  /\ Len(ret.val) > 0

\* the hint "Click and drag to select a range" is shown
HintShown == ret.val.hint = TRUE

\* the "Selection: ..." badge is shown
BadgeShown == Len(ret.val.badge) = 1

\* the chart has notified and its most recent hasData is true
LastHasData == Len(op.notified) > 0 /\ op.notified[Len(op.notified)] = TRUE

\* the arguments of the parent's onHasData calls, in order
Forwarded ==
  [i \in 1..Len(SelectSeq(calls, LAMBDA c : c.fn = "onHasData")) |->
     SelectSeq(calls, LAMBDA c : c.fn = "onHasData")[i].arg]

\* C13: after any sequence of hasData notifications and selection changes
\* the hint and the badge are never both shown; neither is shown initially
\* or while the most recent hasData is false; when the most recent hasData
\* is true exactly one is shown, the badge iff a selection is present; and
\* every notification is forwarded unchanged to the parent's onHasData.
C13_HintOrBadge ==
  /\ ~ret.raised
  /\ ~(HintShown /\ BadgeShown)
  /\ ~LastHasData => (~HintShown /\ ~BadgeShown)
  /\ LastHasData => /\ BadgeShown <=> Len(props.selection) = 2
                    /\ HintShown <=> Len(props.selection) = 0
  /\ Forwarded = op.notified

\* C13 witness: false then true were notified and forwarded, a selection
\* came after, and the badge is shown with the selection's text
C13_Witness ==
  /\ op.name = "selection"
  /\ op.notified = <<FALSE, TRUE>>
  /\ Forwarded = <<FALSE, TRUE>>
  /\ props.selection = <<12000, 23000>>
  /\ BadgeShown
  /\ ~HintShown
  /\ ret.val.badge[1] = <<"S", "e", "l", "e", "c", "t", "i", "o", "n", ":", " ",
                          "1", "2", " ", "-", " ", "2", "3", " ", "m", "s">>

\* the positions in the log of the entries of one kind
LogPositions(fn) == {k \in 1..Len(calls) : calls[k].fn = fn}

\* the DELETE requests sent, in order
Requests == SelectSeq(calls, LAMBDA c : c.fn = "DELETE")

\* the settlements of the requests, in order
Answers == SelectSeq(calls, LAMBDA c : c.fn = "settled")

\* an error response other than 404
FatalAnswer(c) == c.arg.kind = "ResponseError" /\ c.arg.statusCode # 404

\* the four DELETE paths in the order event, metadata, policy, alert
ExpectedDeletes ==
  <<<<"_data_stream/", "logs-endpoint.events.process-default">>,
    <<"_data_stream/", "metrics-endpoint.metadata-default">>,
    <<"_data_stream/", "metrics-endpoint.policy-default">>,
    <<"_data_stream/", "logs-endpoint.alerts-default">>>>

IndexingStarted == LogPositions("indexHostsAndAlerts") # {}

\* C14: with the delete flag the DELETEs of the four indices are sent one
\* at a time in the order event, metadata, policy, alert, and all four are
\* settled before indexHostsAndAlerts is called; a 404 (or a failure that is
\* no error response) does not stop the remaining deletes; an error
\* response other than 404 ends the process with exit code 1, with no
\* further request and no indexing; without the flag no DELETE is sent.
C14_DeletesBeforeIndexing ==
  /\ ~props.delete => Requests = <<>>
  /\ Len(Requests) <= 4
  /\ \A k \in 1..Len(Requests) : Requests[k].arg = ExpectedDeletes[k]
  /\ Len(Answers) <= Len(Requests)
  /\ Len(Requests) <= Len(Answers) + 1
  /\ (IndexingStarted /\ props.delete) =>
       /\ Len(Requests) = 4
       /\ Len(Answers) = 4
       /\ \A k \in LogPositions("DELETE") \cup LogPositions("settled") :
            \A j \in LogPositions("indexHostsAndAlerts") : k < j
  /\ \A k \in 1..Len(Answers) :
       IF FatalAnswer(Answers[k])
         THEN /\ k = Len(Answers)
              /\ Len(Requests) = k
              /\ op.name = "exited"
              /\ ret = Ok(1)
              /\ ~IndexingStarted
         ELSE \/ Len(Requests) > k
              \/ op.name = "request"
              \/ k = 4 /\ op.name \in {"index", "indexing", "exited"}
  /\ (op.name = "exited" /\ ~IndexingStarted) =>
       (ret = Ok(1) /\ Len(Answers) > 0 /\ FatalAnswer(Answers[Len(Answers)]))

\* C14 witness: the delete flag is set, the metadata index answers 404, and
\* indexHostsAndAlerts has been called after all four deletes
C14_Witness ==
  /\ props.delete
  /\ IndexingStarted
  /\ Len(Requests) = 4
  /\ Len(Answers) = 4
  /\ Answers[2].arg = [kind |-> "ResponseError", statusCode |-> 404]

\* an error response 500 to the first DELETE has ended the process
C14_Exited ==
  /\ op.name = "exited"
  /\ ret = Ok(1)
  /\ Len(Requests) = 1
  /\ Answers[1].arg.statusCode = 500

====
